---- MODULE Spec2Model ----
(***************************************************************************)
(* PyTaskFarmer (src/python/taskfarmer.py): N worker processes pop the     *)
(* first line of a shared task file under an exclusive flock, then         *)
(* validate and run it outside the lock.                                   *)
(*                                                                         *)
(* The task file is a sequence of bytes.  Every byte carries, next to its  *)
(* character c, the number id of the job (line) it was written for; id is  *)
(* history information that the program never reads, it only lets the      *)
(* properties tell two equal lines apart.                                  *)
(***************************************************************************)
EXTENDS Naturals, Sequences, FiniteSets

\* ------------------------------------------------------------------ bounds
NumWorkers == 2
MaxJobs == 2
MaxRetries == 2
MaxTaskLen == 4
MaxDisallowed == 2
MaxAppends == 1

Workers == 1..NumWorkers

\* ------------------------------------------------------------- characters
NL == "\n"
SP == " "
NUL == "\\x00"

\* str.isspace(): the characters Python 2 counts as whitespace
WhitespaceChars == {" ", "\t", "\n", "\r", "\\x0b", "\\x0c"}

\* the characters of a tagged byte string
Text(s) == [i \in 1..Len(s) |-> s[i].c]

\* the bytes of line `chars`, written for job `id`
Tag(chars, id) == [i \in 1..Len(chars) |-> [c |-> chars[i], id |-> id]]

\* ------------------------------------------------------- string functions
\* isspace() without the test for a character: true of the empty string
isspace_of_empty(s) == \A i \in 1..Len(s) : s[i] \in WhitespaceChars

\* str.isspace(): at least one character and all of them whitespace
isspace(s) == Len(s) > 0 /\ \A i \in 1..Len(s) : s[i] \in WhitespaceChars

\* str.startswith(prefix)
startswith(s, prefix) ==
    /\ Len(prefix) <= Len(s)
    /\ SubSeq(s, 1, Len(prefix)) = prefix

\* `sub in s`
contains(s, sub) ==
    \E i \in 1..(Len(s) + 1) :
        /\ i + Len(sub) - 1 <= Len(s)
        /\ SubSeq(s, i, i + Len(sub) - 1) = sub

\* str.strip('\n'): drop every leading and every trailing newline
RECURSIVE lstripNL(_)
lstripNL(s) ==
    IF s # <<>> /\ Head(s).c = NL THEN lstripNL(Tail(s)) ELSE s

RECURSIVE rstripNL(_)
rstripNL(s) ==
    IF s # <<>> /\ s[Len(s)].c = NL THEN rstripNL(SubSeq(s, 1, Len(s) - 1)) ELSE s

strip(s) == rstripNL(lstripNL(s))

\* file.readlines(): cut after every newline; the last line may have none
RECURSIVE readlines(_)
readlines(bytes) ==
    IF bytes = <<>> THEN <<>>
    ELSE IF \E i \in 1..Len(bytes) : bytes[i].c = NL
         THEN LET n == CHOOSE i \in 1..Len(bytes) :
                          /\ bytes[i].c = NL
                          /\ \A j \in 1..(i - 1) : bytes[j].c # NL
              IN  <<SubSeq(bytes, 1, n)>> \o readlines(SubSeq(bytes, n + 1, Len(bytes)))
         ELSE <<bytes>>

\* the bytes file.writelines(lines) hands to the file: the lines, joined
RECURSIVE joinlines(_)
joinlines(lines) ==
    IF lines = <<>> THEN <<>> ELSE Head(lines) \o joinlines(Tail(lines))

\* write(data) at offset 0 of a file holding `bytes`: the first Len(data)
\* bytes are replaced, whatever lies beyond stays
writeAtStart(bytes, data) ==
    data \o SubSeq(bytes, Len(data) + 1, Len(bytes))

\* ---------------------------------------------------------------- is_allowed
\* is_allowed's messages; a message is a sequence of pieces so that
\* cmd + " found" keeps the characters of cmd
MsgEmpty == <<"task string is empty">>
MsgNull == <<"null character present">>
MsgZeroLength == <<"task string has zero length">>
MsgNoError == <<"no error">>
MsgFound(cmd) == cmd \o <<" found">>

\* the loop over args.disallowed with the test `cmd2 in task` left out
RECURSIVE check_disallowed_prefix_only(_, _)
check_disallowed_prefix_only(task, disallowed) ==
    IF disallowed = <<>> THEN [allowed |-> TRUE, error |-> MsgNoError]
    ELSE IF startswith(task, Head(disallowed) \o <<SP>>)
         THEN [allowed |-> FALSE, error |-> MsgFound(Head(disallowed))]
         ELSE check_disallowed_prefix_only(task, Tail(disallowed))

\* the loop over args.disallowed (lines 195-203), first match returns
RECURSIVE check_disallowed(_, _)
check_disallowed(task, disallowed) ==
    IF disallowed = <<>> THEN [allowed |-> TRUE, error |-> MsgNoError]
    ELSE LET cmd == Head(disallowed)
             cmd1 == cmd \o <<SP>>
             cmd2 == <<SP>> \o cmd \o <<SP>>
         IN  IF startswith(task, cmd1) \/ contains(task, cmd2)
             THEN [allowed |-> FALSE, error |-> MsgFound(cmd)]
             ELSE check_disallowed(task, Tail(disallowed))

is_allowed(task, disallowed) ==
    IF isspace(task) THEN [allowed |-> FALSE, error |-> MsgEmpty]
    ELSE IF \E i \in 1..Len(task) : task[i] = NUL
         THEN [allowed |-> FALSE, error |-> MsgNull]
    ELSE IF Len(task) = 0 THEN [allowed |-> FALSE, error |-> MsgZeroLength]
    ELSE check_disallowed(task, disallowed)


\* ---------------------------------------------------------------- state
VARIABLES
    file,        \* the bytes of the task file args.file
    exists,      \* whether args.file exists
    holders,     \* the workers whose open file holds flock(LOCK_EX)
    args,        \* the parsed command line (the same for every rank)
    max_retries, \* the module global of line 178; 0 stands for unbound
    pc,          \* per worker: where in the main loop it is
    tasks,       \* per worker: the list `tasks`
    task,        \* per worker: the string `task`
    attempts,    \* per worker: `attempts`
    allowed,     \* per worker: `allowed`
    error,       \* per worker: `error`
    snap,        \* history, per worker: what its last readlines() returned
    jobs,        \* history: the lines ever put in the file; job j is jobs[j]
    claimed,     \* history: one entry per gate acquisition that may pop,
                 \*   in acquisition order; id is the job popped, 0 before
    runs,        \* history, per job: the os.system calls, [w, ok] each
    appends,     \* history: the jobs appended from outside, each with
                 \*   whether a worker slept, whether one held the lock,
                 \*   whether the file ended in the middle of a line,
                 \*   whether every worker ran a task, slept or had exited
                 \*   and whether the file held a line
    in_task,     \* is_allowed called alone: its argument
    out          \* is_allowed called alone: <<the value returned>>, <<>> before

worker_vars == <<pc, tasks, task, attempts, allowed, error, snap>>
history_vars == <<jobs, claimed, runs, appends>>

\* how many jobs there have been
njobs == Len(jobs)
config_vars == <<args, max_retries>>
validator_vars == <<in_task, out>>
vars == <<file, exists, holders, config_vars, worker_vars, history_vars,
          validator_vars>>

\* ---------------------------------------------------------------- Init
\* the default of --disallowed (line 173)
DefaultDisallowed == << <<"r", "m">> >>

\* commands a line of the task file may hold: one that is allowed, one the
\* default denylist rejects, and none at all (a blank line)
Commands == { <<"e">>, <<"r", "m", SP, "x">>, <<>> }

\* the file holding the lines cmds[k], cmds[k+1], ..., newline-terminated
RECURSIVE fileFrom(_, _)
fileFrom(cmds, k) ==
    IF k > Len(cmds) THEN <<>>
    ELSE Tag(cmds[k] \o <<NL>>, k) \o fileFrom(cmds, k + 1)

\* a task file of up to MaxJobs lines; a last line that holds a command may
\* lack its newline
TaskFiles ==
    UNION { { fileFrom(cmds, 1) : cmds \in [1..n -> Commands] }
            \cup { SubSeq(fileFrom(cmds, 1), 1, Len(fileFrom(cmds, 1)) - 1) :
                     cmds \in { c \in [1..n -> Commands] : n > 0 /\ c[n] # <<>> } }
          : n \in 0..MaxJobs }

\* lines 155-178: argument parsing and the override of max_retries
InitArgs ==
    /\ args \in [ retry : BOOLEAN,
                  max_retries : 1..MaxRetries,
                  wait_on_idle : BOOLEAN,
                  disallowed : {DefaultDisallowed} ]
    /\ max_retries = IF ~args.retry THEN 1 ELSE 0

InitWorkers ==
    /\ pc = [w \in Workers |-> "open"]
    /\ tasks = [w \in Workers |-> <<>>]
    /\ task = [w \in Workers |-> <<>>]
    /\ attempts = [w \in Workers |-> 0]
    /\ allowed = [w \in Workers |-> FALSE]
    /\ error = [w \in Workers |-> <<>>]
    /\ snap = [w \in Workers |-> <<>>]
    /\ holders = {}

InitValidatorIdle ==
    /\ in_task = <<>>
    /\ out = <<>>

Init ==
    /\ InitArgs
    /\ InitWorkers
    /\ InitValidatorIdle
    /\ \/ exists = TRUE /\ file \in TaskFiles
       \/ exists = FALSE /\ file = <<>>
    /\ jobs = readlines(file)
    /\ appends = <<>>
    /\ claimed = <<>>
    /\ runs = [j \in 1..Len(jobs) |-> <<>>]


\* ---------------------------------------------------------------- the main loop
\* open(args.file, 'a+'): a missing file is created, the open never fails
OpenFile_creates(w) ==
    /\ pc[w] = "open"
    /\ exists' = TRUE
    /\ pc' = [pc EXCEPT ![w] = "lock"]
    /\ UNCHANGED <<file, holders, config_vars, tasks, task, attempts,
                   allowed, error, snap, history_vars, validator_vars>>

\* lines 207-212: open(args.file, 'r+'); a missing file ends the process
OpenFile(w) ==
    /\ pc[w] = "open"
    /\ pc' = [pc EXCEPT ![w] = IF exists THEN "lock" ELSE "done"]
    /\ UNCHANGED <<file, exists, holders, config_vars, tasks, task, attempts,
                   allowed, error, snap, history_vars, validator_vars>>

\* flock that returns at once, whoever holds the lock
LockFile_no_wait(w) ==
    /\ pc[w] = "lock"
    /\ holders' = holders \cup {w}
    /\ pc' = [pc EXCEPT ![w] = "read"]
    /\ claimed' = Append(claimed, [w |-> w, id |-> 0])
    /\ UNCHANGED <<file, exists, config_vars, tasks, task, attempts, allowed,
                   error, snap, jobs, runs, appends, validator_vars>>

\* line 215: flock(f, LOCK_EX) returns once no other open file holds the lock
LockFile(w) ==
    /\ pc[w] = "lock"
    /\ holders = {}
    /\ holders' = holders \cup {w}
    /\ pc' = [pc EXCEPT ![w] = "read"]
    /\ claimed' = Append(claimed, [w |-> w, id |-> 0])
    /\ UNCHANGED <<file, exists, config_vars, tasks, task, attempts, allowed,
                   error, snap, jobs, runs, appends, validator_vars>>

\* tasks[0] without the removal: the list keeps its first line
pop_keeps_item(lines) == [item |-> Head(lines), rest |-> lines]

\* tasks.pop(): the last line instead of the first
pop_last(lines) ==
    [item |-> lines[Len(lines)], rest |-> SubSeq(lines, 1, Len(lines) - 1)]

\* tasks.pop(0): the first line, and the list it leaves
pop(lines) == [item |-> Head(lines), rest |-> Tail(lines)]

\* the entry of `claimed` this worker's acquisition made
pending(w) ==
    { k \in 1..Len(claimed) : claimed[k].w = w /\ claimed[k].id = 0 }

\* the empty-file branch without the test of args.wait_on_idle: always exit
idle_branch_always_exit == "exit_unlock"

\* the empty-file branch without the test of args.wait_on_idle: always wait
idle_branch_always_wait == "idle_unlock"

\* line 264: if args.wait_on_idle, on an empty task list
idle_branch == IF args.wait_on_idle THEN "idle_unlock" ELSE "exit_unlock"

\* the claim without readlines() when the worker still has lines from its
\* claim before: it pops from the list it kept
ReadTasks_stale(w) ==
    /\ pc[w] = "read"
    /\ LET lines == IF tasks[w] # <<>> THEN tasks[w] ELSE readlines(file)
           num_tasks == Len(lines)
       IN  /\ snap' = [snap EXCEPT ![w] = lines]
           /\ IF num_tasks > 0
              THEN /\ task' = [task EXCEPT ![w] = strip(pop(lines).item)]
                   /\ tasks' = [tasks EXCEPT ![w] = pop(lines).rest]
                   /\ pc' = [pc EXCEPT ![w] = "truncate"]
                   /\ claimed' = [k \in 1..Len(claimed) |->
                                    IF k \in pending(w)
                                    THEN [claimed[k] EXCEPT !.id = pop(lines).item[1].id]
                                    ELSE claimed[k]]
              ELSE /\ tasks' = [tasks EXCEPT ![w] = lines]
                   /\ pc' = [pc EXCEPT ![w] = idle_branch]
                   /\ claimed' = SelectSeq(claimed, LAMBDA e : ~(e.w = w /\ e.id = 0))
                   /\ UNCHANGED task
    /\ UNCHANGED <<file, exists, holders, config_vars, attempts, allowed, error,
                   jobs, runs, appends, validator_vars>>

\* lines 218-229 and 263-264: readlines(), the test of num_tasks, pop(0),
\* strip('\n') and seek(0); on an empty list the choice of the idle branch
ReadTasks(w) ==
    /\ pc[w] = "read"
    /\ LET lines == readlines(file)
           num_tasks == Len(lines)
       IN  /\ snap' = [snap EXCEPT ![w] = lines]
           /\ IF num_tasks > 0
              THEN /\ task' = [task EXCEPT ![w] = strip(pop(lines).item)]
                   /\ tasks' = [tasks EXCEPT ![w] = pop(lines).rest]
                   /\ pc' = [pc EXCEPT ![w] = "truncate"]
                   /\ claimed' = [k \in 1..Len(claimed) |->
                                    IF k \in pending(w)
                                    THEN [claimed[k] EXCEPT !.id = pop(lines).item[1].id]
                                    ELSE claimed[k]]
              ELSE /\ tasks' = [tasks EXCEPT ![w] = lines]
                   /\ pc' = [pc EXCEPT ![w] = idle_branch]
                   /\ claimed' = SelectSeq(claimed, LAMBDA e : ~(e.w = w /\ e.id = 0))
                   /\ UNCHANGED task
    /\ UNCHANGED <<file, exists, holders, config_vars, attempts, allowed, error,
                   jobs, runs, appends, validator_vars>>

\* the main loop without f.truncate()
TruncateFile_skipped(w) ==
    /\ pc[w] = "truncate"
    /\ pc' = [pc EXCEPT ![w] = "write"]
    /\ UNCHANGED <<file, exists, holders, config_vars, tasks, task, attempts,
                   allowed, error, snap, history_vars, validator_vars>>

\* line 230: f.truncate() at offset 0
TruncateFile(w) ==
    /\ pc[w] = "truncate"
    /\ file' = <<>>
    /\ pc' = [pc EXCEPT ![w] = "write"]
    /\ UNCHANGED <<exists, holders, config_vars, tasks, task, attempts, allowed,
                   error, snap, history_vars, validator_vars>>

\* the popped line put back at the end of the list that is written
WriteTasks_requeues(w) ==
    /\ pc[w] = "write"
    /\ file' = writeAtStart(file, joinlines(Append(tasks[w], Head(snap[w]))))
    /\ pc' = [pc EXCEPT ![w] = "unlock"]
    /\ UNCHANGED <<exists, holders, config_vars, tasks, task, attempts, allowed,
                   error, snap, history_vars, validator_vars>>

\* lines 233-236: f.writelines(tasks); f.flush()
WriteTasks(w) ==
    /\ pc[w] = "write"
    /\ file' = writeAtStart(file, joinlines(tasks[w]))
    /\ pc' = [pc EXCEPT ![w] = "unlock"]
    /\ UNCHANGED <<exists, holders, config_vars, tasks, task, attempts, allowed,
                   error, snap, history_vars, validator_vars>>

\* the claim without flock(f, LOCK_UN) and f.close(): the lock is kept
\* while the task is validated and run
UnlockFile_keeps_lock(w) ==
    /\ pc[w] = "unlock"
    /\ attempts' = [attempts EXCEPT ![w] = 0]
    /\ pc' = [pc EXCEPT ![w] = "validate"]
    /\ UNCHANGED <<file, exists, holders, config_vars, tasks, task, allowed,
                   error, snap, history_vars, validator_vars>>

\* the claim without attempts = 0: the count of the task before is kept
UnlockFile_no_reset(w) ==
    /\ pc[w] = "unlock"
    /\ holders' = holders \ {w}
    /\ pc' = [pc EXCEPT ![w] = "validate"]
    /\ UNCHANGED <<file, exists, config_vars, tasks, task, attempts, allowed,
                   error, snap, history_vars, validator_vars>>

\* lines 239-243: flock(f, LOCK_UN); f.close(); attempts = 0
UnlockFile(w) ==
    /\ pc[w] = "unlock"
    /\ holders' = holders \ {w}
    /\ attempts' = [attempts EXCEPT ![w] = 0]
    /\ pc' = [pc EXCEPT ![w] = "validate"]
    /\ UNCHANGED <<file, exists, config_vars, tasks, task, allowed, error, snap,
                   history_vars, validator_vars>>

\* the verdict of is_allowed computed and then not tested: every task runs
ValidateTask_runs_rejected(w) ==
    /\ pc[w] = "validate"
    /\ LET r == is_allowed(Text(task[w]), args.disallowed)
       IN  /\ allowed' = [allowed EXCEPT ![w] = r.allowed]
           /\ error' = [error EXCEPT ![w] = r.error]
           /\ pc' = [pc EXCEPT ![w] = "exec"]
    /\ UNCHANGED <<file, exists, holders, config_vars, tasks, task, attempts,
                   snap, history_vars, validator_vars>>

\* lines 246-247 and 260-261: allowed, error = is_allowed(task); a task that
\* is not allowed is reported and the loop starts over
ValidateTask(w) ==
    /\ pc[w] = "validate"
    /\ LET r == is_allowed(Text(task[w]), args.disallowed)
       IN  /\ allowed' = [allowed EXCEPT ![w] = r.allowed]
           /\ error' = [error EXCEPT ![w] = r.error]
           /\ pc' = [pc EXCEPT ![w] = IF r.allowed THEN "exec" ELSE "open"]
    /\ UNCHANGED <<file, exists, holders, config_vars, tasks, task, attempts,
                   snap, history_vars, validator_vars>>

\* the job whose line the worker popped last
jobOf(w) == pop(snap[w]).item[1].id

\* the while loop with attempts <= args.max_retries
ExecuteTask_one_more(w) ==
    /\ pc[w] = "exec"
    /\ IF attempts[w] <= args.max_retries
       THEN \E ok \in BOOLEAN :
              /\ runs' = [runs EXCEPT ![jobOf(w)] = Append(@, [w |-> w, ok |-> ok])]
              /\ IF ok
                 THEN /\ pc' = [pc EXCEPT ![w] = "open"]
                      /\ UNCHANGED attempts
                 ELSE /\ attempts' = [attempts EXCEPT ![w] = @ + 1]
                      /\ UNCHANGED pc
       ELSE /\ pc' = [pc EXCEPT ![w] = "open"]
            /\ UNCHANGED <<attempts, runs>>
    /\ UNCHANGED <<file, exists, holders, config_vars, tasks, task, allowed,
                   error, snap, jobs, claimed, appends, validator_vars>>

\* the process ended once the attempts are used up
ExecuteTask_exit_on_exhaust(w) ==
    /\ pc[w] = "exec"
    /\ IF attempts[w] < args.max_retries
       THEN \E ok \in BOOLEAN :
              /\ runs' = [runs EXCEPT ![jobOf(w)] = Append(@, [w |-> w, ok |-> ok])]
              /\ IF ok
                 THEN /\ pc' = [pc EXCEPT ![w] = "open"]
                      /\ UNCHANGED attempts
                 ELSE /\ attempts' = [attempts EXCEPT ![w] = @ + 1]
                      /\ UNCHANGED pc
       ELSE /\ pc' = [pc EXCEPT ![w] = "done"]
            /\ UNCHANGED <<attempts, runs>>
    /\ UNCHANGED <<file, exists, holders, config_vars, tasks, task, allowed,
                   error, snap, jobs, claimed, appends, validator_vars>>

\* lines 252-253: one evaluation of the while condition
\*   attempts < args.max_retries and os.system(task) != 0
\* and, when it holds, of the body attempts += 1; os.system returns 0 or not
ExecuteTask(w) ==
    /\ pc[w] = "exec"
    /\ IF attempts[w] < args.max_retries
       THEN \E ok \in BOOLEAN :
              /\ runs' = [runs EXCEPT ![jobOf(w)] = Append(@, [w |-> w, ok |-> ok])]
              /\ IF ok
                 THEN /\ pc' = [pc EXCEPT ![w] = "open"]
                      /\ UNCHANGED attempts
                 ELSE /\ attempts' = [attempts EXCEPT ![w] = @ + 1]
                      /\ UNCHANGED pc
       ELSE /\ pc' = [pc EXCEPT ![w] = "open"]
            /\ UNCHANGED <<attempts, runs>>
    /\ UNCHANGED <<file, exists, holders, config_vars, tasks, task, allowed,
                   error, snap, jobs, claimed, appends, validator_vars>>

\* the idle branch without flock(f, LOCK_UN): the worker sleeps on the lock
IdleUnlock_keeps_lock(w) ==
    /\ pc[w] = "idle_unlock"
    /\ pc' = [pc EXCEPT ![w] = "sleep"]
    /\ UNCHANGED <<file, exists, holders, config_vars, tasks, task, attempts,
                   allowed, error, snap, history_vars, validator_vars>>

\* lines 270-271: flock(f, LOCK_UN); f.close() before sleeping
IdleUnlock(w) ==
    /\ pc[w] = "idle_unlock"
    /\ holders' = holders \ {w}
    /\ pc' = [pc EXCEPT ![w] = "sleep"]
    /\ UNCHANGED <<file, exists, config_vars, tasks, task, attempts, allowed,
                   error, snap, history_vars, validator_vars>>

\* line 274: time.sleep(args.sleep_time) returns
Sleep(w) ==
    /\ pc[w] = "sleep"
    /\ pc' = [pc EXCEPT ![w] = "open"]
    /\ UNCHANGED <<file, exists, holders, config_vars, tasks, task, attempts,
                   allowed, error, snap, history_vars, validator_vars>>

\* the exit branch without sys.exit(): the lock released, the loop goes on
ExitUnlock_no_exit(w) ==
    /\ pc[w] = "exit_unlock"
    /\ holders' = holders \ {w}
    /\ pc' = [pc EXCEPT ![w] = "open"]
    /\ UNCHANGED <<file, exists, config_vars, tasks, task, attempts, allowed,
                   error, snap, history_vars, validator_vars>>

\* lines 281-284: flock(f, LOCK_UN); sys.exit()
ExitUnlock(w) ==
    /\ pc[w] = "exit_unlock"
    /\ holders' = holders \ {w}
    /\ pc' = [pc EXCEPT ![w] = "done"]
    /\ UNCHANGED <<file, exists, config_vars, tasks, task, attempts, allowed,
                   error, snap, history_vars, validator_vars>>

Next ==
    \E w \in Workers :
        \/ OpenFile(w)
        \/ LockFile(w)
        \/ ReadTasks(w)
        \/ TruncateFile(w)
        \/ WriteTasks(w)
        \/ UnlockFile(w)
        \/ ValidateTask(w)
        \/ ExecuteTask(w)
        \/ IdleUnlock(w)
        \/ Sleep(w)
        \/ ExitUnlock(w)

Spec == Init /\ [][Next]_vars

\* the steps of worker w other than a run of its task: the process is
\* scheduled, its system calls return, flock returns when the lock is free
Proceed(w) ==
    \/ OpenFile(w)
    \/ LockFile(w)
    \/ ReadTasks(w)
    \/ TruncateFile(w)
    \/ WriteTasks(w)
    \/ UnlockFile(w)
    \/ ValidateTask(w)
    \/ IdleUnlock(w)
    \/ Sleep(w)
    \/ ExitUnlock(w)

\* every worker process keeps running
FairSpec == Spec /\ \A w \in Workers : WF_vars(Proceed(w))

\* every worker process keeps running and every call of os.system returns
FairRunSpec ==
    /\ Spec
    /\ \A w \in Workers : WF_vars(Proceed(w) \/ ExecuteTask(w))

\* every worker process keeps running and flock is fair: a worker that
\* waits for the lock gets it if the lock is free again and again; a run
\* of a task need not end
FairGateSpec ==
    /\ Spec
    /\ \A w \in Workers : WF_vars(Proceed(w)) /\ SF_vars(LockFile(w))

\* the worker process is killed while it holds the lock (the allocation's
\* wall time ends, SIGKILL): the kernel closes its file, which drops the
\* lock; nothing it had in memory is written.  Killed in writelines() and
\* before flush() returns, any prefix of the data may have reached the file.
\* A claim that had not truncated the file yet leaves no trace.
Kill(w) ==
    /\ pc[w] \in {"read", "truncate", "write", "unlock", "idle_unlock", "exit_unlock"}
    /\ holders' = holders \ {w}
    /\ pc' = [pc EXCEPT ![w] = "killed"]
    /\ IF pc[w] = "write"
       THEN \E n \in 0..Len(joinlines(tasks[w])) :
              file' = writeAtStart(file, SubSeq(joinlines(tasks[w]), 1, n))
       ELSE file' = file
    /\ claimed' = IF pc[w] \in {"read", "truncate"}
                  THEN SelectSeq(claimed, LAMBDA e : ~(e.w = w /\ e.id = IF pc[w] = "read" THEN 0 ELSE jobOf(w)))
                  ELSE claimed
    /\ UNCHANGED <<exists, config_vars, tasks, task, attempts, allowed, error,
                   snap, jobs, runs, appends, validator_vars>>

NextKill == Next \/ \E w \in Workers : Kill(w)

SpecKill == Init /\ [][NextKill]_vars

\* the commands of the lines appended from outside
AppendedCommands == { <<"e">> }

\* lines 28-30 and 116-119: the task file is extended from outside while
\* the workers run, cat more_tasks >> tasks.txt: one more line at the end
\* of the file, whatever the workers are doing
AppendLine ==
    /\ exists
    /\ \E cmd \in AppendedCommands :
          LET line == Tag(cmd \o <<NL>>, njobs + 1)
          IN  /\ file' = file \o line
              /\ jobs' = Append(jobs, line)
    /\ runs' = Append(runs, <<>>)
    /\ appends' = Append(appends, [id |-> njobs + 1,
                                    asleep |-> \E w \in Workers : pc[w] = "sleep",
                                    locked |-> holders # {},
                                    joined |-> file # <<>> /\ file[Len(file)].c # NL,
                                    quiet |-> \A w \in Workers :
                                       pc[w] \in {"validate", "exec", "sleep", "done"},
                                    behind |-> file # <<>>])
    /\ UNCHANGED <<exists, holders, config_vars, worker_vars, claimed,
                   validator_vars>>

\* appends while the file has had fewer than MaxJobs lines in all
ExternalAppend ==
    /\ njobs < MaxJobs
    /\ AppendLine

NextAppend == Next \/ ExternalAppend

SpecAppend == Init /\ [][NextAppend]_vars

\* every worker process keeps running and every run of a task ends
FairSpecAppend ==
    /\ SpecAppend
    /\ \A w \in Workers : WF_vars(Proceed(w) \/ ExecuteTask(w))


\* a task file with one line more than there are workers, so that a line
\* is pending while every worker runs a task; the last line may lack its
\* newline
BusyFiles ==
    LET f == fileFrom([k \in 1..(NumWorkers + 1) |-> <<"e">>], 1)
    IN  { f, SubSeq(f, 1, Len(f) - 1) }

\* the workers started without --retry on such a file
InitBusy ==
    /\ args \in [ retry : {FALSE},
                  max_retries : {1},
                  wait_on_idle : BOOLEAN,
                  disallowed : {DefaultDisallowed} ]
    /\ max_retries = 1
    /\ InitWorkers
    /\ InitValidatorIdle
    /\ exists = TRUE
    /\ file \in BusyFiles
    /\ jobs = readlines(file)
    /\ appends = <<>>
    /\ claimed = <<>>
    /\ runs = [j \in 1..Len(jobs) |-> <<>>]

\* up to MaxAppends appends to the file, at any time
ExternalAppendBusy ==
    /\ Len(appends) < MaxAppends
    /\ AppendLine

NextAppendBusy == Next \/ ExternalAppendBusy

SpecAppendBusy == InitBusy /\ [][NextAppendBusy]_vars


\* ------------------------------------------------ is_allowed called alone
\* the characters the task strings and the commands are made of
Alphabet == {"r", "m", SP, "\t", NUL}

\* every string of up to n characters
Strings(n) == UNION { [1..k -> Alphabet] : k \in 0..n }

\* the strings of the documentation's examples
RmRf == <<"r", "m", SP, "-", "r", "f", SP, "/">>
EchoHi == <<"e", "c", "h", "o", SP, "h", "i">>
FormatRmData == <<"f", "o", "r", "m", "a", "t", "-", "r", "m", "-", "d", "a", "t", "a">>

\* values of --disallowed: up to MaxDisallowed commands
DisallowedCommands == { <<"r", "m">>, <<"m">>, <<>> }
DisallowedLists == UNION { [1..k -> DisallowedCommands] : k \in 0..MaxDisallowed }

InitValidator ==
    /\ in_task \in Strings(MaxTaskLen) \cup {RmRf, EchoHi, FormatRmData}
    /\ out = <<>>
    /\ args \in [ retry : {FALSE},
                  max_retries : {1},
                  wait_on_idle : {FALSE},
                  disallowed : DisallowedLists ]
    /\ max_retries = 1
    /\ InitWorkers
    /\ exists = FALSE
    /\ file = <<>>
    /\ jobs = <<>>
    /\ appends = <<>>
    /\ claimed = <<>>
    /\ runs = <<>>

\* line 246: a call is_allowed(task)
CallIsAllowed ==
    /\ out = <<>>
    /\ out' = <<is_allowed(in_task, args.disallowed)>>
    /\ UNCHANGED <<file, exists, holders, config_vars, worker_vars,
                   history_vars, in_task>>

SpecValidator == InitValidator /\ [][CallIsAllowed]_vars


\* ------------------------------------------------------------ C9 and C10
\* the task string starts with cmd followed by a space
CmdThenSpace(t, cmd) ==
    /\ Len(t) >= Len(cmd) + 1
    /\ \A i \in 1..Len(cmd) : t[i] = cmd[i]
    /\ t[Len(cmd) + 1] = SP

\* the task string holds cmd with a space on both sides
CmdBetweenSpaces(t, cmd) ==
    \E p \in 1..Len(t) :
        /\ p + Len(cmd) + 1 <= Len(t)
        /\ t[p] = SP
        /\ \A i \in 1..Len(cmd) : t[p + i] = cmd[i]
        /\ t[p + Len(cmd) + 1] = SP

Denied(t, cmd) == CmdThenSpace(t, cmd) \/ CmdBetweenSpaces(t, cmd)

OnlyWhitespace(t) ==
    /\ t # <<>>
    /\ \A i \in 1..Len(t) : t[i] = SP \/ t[i] = "\t"

HasNull(t) == \E i \in 1..Len(t) : t[i] = NUL

\* C9: a task string that is not blank, not empty and holds no null byte is
\* rejected, with the message naming a command that matches, exactly when
\* some command of the denylist is followed by a space at its start or has
\* a space on both sides somewhere in it; otherwise it is allowed, with
\* "no error".  With the denylist ["rm"], "rm -rf /" is rejected and
\* "echo hi" and "format-rm-data" are allowed.
C9_DenylistRule ==
    out # <<>> =>
      LET t == in_task
          d == args.disallowed
          r == out[1]
      IN  /\ (~OnlyWhitespace(t) /\ t # <<>> /\ ~HasNull(t)) =>
                /\ r.allowed = ~(\E k \in 1..Len(d) : Denied(t, d[k]))
                /\ ~r.allowed =>
                     \E k \in 1..Len(d) :
                        Denied(t, d[k]) /\ r.error = d[k] \o <<" found">>
                /\ r.allowed => r.error = <<"no error">>
          /\ d = DefaultDisallowed =>
                /\ t = RmRf => ~r.allowed /\ r.error = <<"r", "m", " found">>
                /\ t = EchoHi => r.allowed
                /\ t = FormatRmData => r.allowed

\* reached: a string rejected only because it holds "rm" between two spaces
C9_Witness ==
    /\ out # <<>>
    /\ ~out[1].allowed
    /\ out[1].error = <<"r", "m", " found">>
    /\ ~OnlyWhitespace(in_task) /\ in_task # <<>> /\ ~HasNull(in_task)
    /\ \A k \in 1..Len(args.disallowed) : ~CmdThenSpace(in_task, args.disallowed[k])
    /\ \E k \in 1..Len(args.disallowed) :
          /\ args.disallowed[k] = <<"r", "m">>
          /\ CmdBetweenSpaces(in_task, args.disallowed[k])

TimesClaimed(j) == Cardinality({ k \in 1..Len(claimed) : claimed[k].id = j })
Claimers(j) == { claimed[k].w : k \in { i \in 1..Len(claimed) : claimed[i].id = j } }

\* the jobs that have a byte in the file
FileJobs == { file[i].id : i \in 1..Len(file) }

\* the worker's claim transaction found the file empty
SawEmpty(w) ==
    \/ pc[w] \in {"idle_unlock", "exit_unlock", "sleep"}
    \/ pc[w] = "done" /\ exists

\* the worker popped job j and has not left the loop body for it
OnJob(w, j) ==
    /\ pc[w] \in {"truncate", "write", "unlock", "validate", "exec"}
    /\ jobOf(w) = j

\* job j was popped and the worker that popped it is through with it
Finished(j) == TimesClaimed(j) >= 1 /\ \A w \in Workers : ~OnJob(w, j)

\* the validator allows job j
AllowedJob(j) == is_allowed(Text(strip(jobs[j])), args.disallowed).allowed

\* C1: with the file present and nobody else writing it, no job is popped
\* twice, only jobs of the original file are popped, and once the file is
\* exhausted (it is empty and nobody is about to write it back, or a worker
\* has seen it empty) every original job has been popped by exactly one
\* acquisition of one worker and the file is empty.
C1_ExactlyOnce ==
    exists =>
      /\ \A j \in 1..njobs : TimesClaimed(j) <= 1
      /\ \A k \in 1..Len(claimed) : claimed[k].id \in 0..njobs
      /\ (file = <<>> /\ \A w \in Workers : pc[w] # "write") =>
            \A j \in 1..njobs : TimesClaimed(j) = 1 /\ Cardinality(Claimers(j)) = 1
      /\ \A w \in Workers : SawEmpty(w) =>
            /\ file = <<>>
            /\ \A j \in 1..njobs : TimesClaimed(j) = 1

\* reached: every worker has exited after MaxJobs jobs were popped, by
\* more than one worker
C1_Witness ==
    /\ exists
    /\ njobs >= MaxJobs
    /\ \A w \in Workers : pc[w] = "done"
    /\ \E k1, k2 \in 1..Len(claimed) : claimed[k1].w # claimed[k2].w

\* C2: in the order of the gate acquisitions, the jobs popped are lines 1,
\* 2, 3, ... of the file: the k-th acquisition that pops, pops line k, and
\* every earlier acquisition has popped its line by then.
C2_FifoOrder ==
    \A k \in 1..Len(claimed) :
        claimed[k].id # 0 =>
            /\ claimed[k].id = k
            /\ \A i \in 1..(k - 1) : claimed[i].id = i

\* reached: two workers have popped lines 1 and 2
C2_Witness ==
    /\ Len(claimed) >= 2
    /\ claimed[1].id = 1
    /\ claimed[2].id = 2
    /\ claimed[1].w # claimed[2].w

\* the transaction of w has written the file back and no other has begun
Completed(w) ==
    \/ pc[w] = "unlock"
    \/ /\ pc[w] = "validate"
       /\ holders = {}
       /\ claimed # <<>>
       /\ claimed[Len(claimed)].w = w

\* C3: when a claim transaction on a non-empty file is complete, the file
\* holds what the transaction read less its first line (the other lines as
\* they were, in their order), and the task is that first line without
\* the newline that ends it.
C3_Atomicity ==
    \A w \in Workers :
        Completed(w) =>
            LET first == Head(snap[w])
                n == Len(first)
            IN  /\ snap[w] # <<>>
                /\ joinlines(snap[w]) = first \o file
                /\ readlines(file) = Tail(snap[w])
                /\ \A i \in 1..(n - 1) : first[i].c # NL
                /\ task[w] = IF first[n].c = NL THEN SubSeq(first, 1, n - 1) ELSE first

\* reached: a transaction that popped the first of two lines is complete
C3_Witness ==
    \E w \in Workers :
        /\ pc[w] = "unlock"
        /\ Len(snap[w]) = 2
        /\ file # <<>>

\* the worker is between flock(LOCK_EX) and flock(LOCK_UN)
InTransaction(w) ==
    pc[w] \in {"read", "truncate", "write", "unlock", "idle_unlock", "exit_unlock"}

\* C4: at most one worker holds the lock, and a worker is between its
\* flock(LOCK_EX) and its flock(LOCK_UN), where it reads and writes the
\* file, only while it is the one holder; a worker waiting in flock is not.
C4_MutualExclusion ==
    /\ Cardinality(holders) <= 1
    /\ \A w \in Workers : InTransaction(w) <=> w \in holders
    /\ \A w \in Workers : InTransaction(w) => holders = {w}

\* reached: one worker waits in flock while another is about to write
C4_Witness ==
    \E w1, w2 \in Workers :
        /\ w1 # w2
        /\ pc[w1] = "lock"
        /\ pc[w2] = "write"
        /\ holders = {w2}

\* C5 as stated: without --retry an allowed job is run exactly once
C5_SingleAttempt ==
    (exists /\ ~args.retry) =>
        \A j \in 1..njobs :
            /\ Len(runs[j]) <= 1
            /\ (Finished(j) /\ AllowedJob(j)) => Len(runs[j]) = 1

\* C6: with --retry and --max-retries m, a job is run at most m times and
\* only by the worker that popped it, a popped job has no byte in the file
\* once the file is truncated, and an allowed job whose runs all failed has
\* been run exactly m times when its worker is through with it.
C6_RetryBound ==
    (exists /\ args.retry) =>
        \A j \in 1..njobs :
            /\ Len(runs[j]) <= args.max_retries
            /\ \A i \in 1..Len(runs[j]) : Claimers(j) = {runs[j][i].w}
            /\ (TimesClaimed(j) >= 1 /\ \A w \in Workers : ~(pc[w] = "truncate" /\ jobOf(w) = j))
                  => j \notin FileJobs
            /\ (Finished(j) /\ AllowedJob(j) /\ \A i \in 1..Len(runs[j]) : ~runs[j][i].ok)
                  => Len(runs[j]) = args.max_retries

\* reached: a job that failed MaxRetries times was given up, others remain
C6_Witness ==
    /\ exists
    /\ args.retry
    /\ args.max_retries = MaxRetries
    /\ \E j \in 1..njobs :
        /\ Finished(j)
        /\ Len(runs[j]) = MaxRetries
        /\ \A i \in 1..Len(runs[j]) : ~runs[j][i].ok
        /\ \E w \in Workers : pc[w] = "truncate" /\ Claimers(j) = {w}


\* ------------------------------------------------------------ C7 and C8
\* C7: a worker whose readlines() returns nothing while wait_on_idle is
\* false goes on to release the lock and exit: the read leaves the file and
\* the runs as they were, nobody changes the file while the worker still
\* holds the lock, its next step releases the lock and ends the process
\* without a run and without a write, and that step is eventually taken.
C7_TerminateOnEmpty ==
    /\ [][\A w \in Workers :
            (pc[w] = "read" /\ pc'[w] # "read" /\ file = <<>> /\ ~args.wait_on_idle)
               => (pc'[w] = "exit_unlock" /\ file' = file /\ runs' = runs)]_vars
    /\ [][\A w \in Workers : pc[w] = "exit_unlock" => file' = file]_vars
    /\ [][\A w \in Workers :
            (pc[w] = "exit_unlock" /\ pc'[w] # "exit_unlock")
               => (pc'[w] = "done" /\ w \notin holders' /\ runs' = runs)]_vars
    /\ \A w \in Workers : (pc[w] = "exit_unlock") ~> (pc[w] = "done")

\* reached: a worker has exited on the empty file while another still runs
\* a task it popped
C7_Witness ==
    \E w1, w2 \in Workers :
        /\ exists
        /\ pc[w1] = "done"
        /\ pc[w2] = "exec"
        /\ holders = {}

\* line j of `jobs` is in the file as it was put there, or in the list a
\* lock holder is about to write back
Pending(j) ==
    \/ \E i \in 1..Len(readlines(file)) : readlines(file)[i] = jobs[j]
    \/ \E w \in Workers :
          /\ pc[w] \in {"truncate", "write"}
          /\ \E i \in 1..Len(tasks[w]) : tasks[w][i] = jobs[j]

\* a job that is neither popped nor pending can never be popped: the
\* workers write back only lines they read
NeverLost(j) ==
    /\ TimesClaimed(j) <= 1
    /\ TimesClaimed(j) = 1 \/ Pending(j)

\* C8 as stated: with wait_on_idle, a job appended from outside while some
\* worker sleeps is popped exactly once; here, its part that a finite run
\* refutes: such a job is never popped twice and never lost
C8_AppendedWhileAsleepIsClaimed ==
    args.wait_on_idle =>
        \A i \in 1..Len(appends) :
            appends[i].asleep => NeverLost(appends[i].id)

\* the job was appended while a worker slept and no worker held the lock
AppendedAsleepUnlocked(j) ==
    \E i \in 1..Len(appends) :
        /\ appends[i].id = j
        /\ appends[i].asleep
        /\ ~appends[i].locked

\* C8, amended: with wait_on_idle, a worker whose readlines() returns
\* nothing releases the lock, sleeps and opens the file again; no worker
\* exits because the file is empty; and a job appended from outside while
\* a worker sleeps and no worker holds the lock is never lost, never
\* popped twice and eventually popped.
C8_WaitOnIdle ==
    /\ [][\A w \in Workers :
            (pc[w] = "read" /\ pc'[w] # "read" /\ file = <<>> /\ args.wait_on_idle)
               => (pc'[w] = "idle_unlock" /\ file' = file)]_vars
    /\ [][\A w \in Workers :
            (pc[w] = "idle_unlock" /\ pc'[w] # "idle_unlock")
               => (pc'[w] = "sleep" /\ w \notin holders')]_vars
    /\ [][\A w \in Workers :
            (pc[w] = "sleep" /\ pc'[w] # "sleep") => pc'[w] = "open"]_vars
    /\ []((args.wait_on_idle /\ exists) =>
            \A w \in Workers : pc[w] \notin {"exit_unlock", "done"})
    /\ [](args.wait_on_idle =>
            \A j \in 1..njobs : AppendedAsleepUnlocked(j) => NeverLost(j))
    /\ \A j \in 1..MaxJobs :
          (args.wait_on_idle /\ j <= njobs /\ AppendedAsleepUnlocked(j))
             ~> (TimesClaimed(j) = 1)

\* reached: a job appended while a worker slept and nobody held the lock
\* has been popped by a worker that was asleep then
C8_Witness ==
    /\ args.wait_on_idle
    /\ \E i \in 1..Len(appends) :
          /\ appends[i].asleep
          /\ ~appends[i].locked
          /\ TimesClaimed(appends[i].id) = 1
          /\ \E w \in Workers : pc[w] = "exec" /\ jobOf(w) = appends[i].id

\* ------------------------------------------------------------ C11
\* the worker holds a job it popped that the validator rejects
HoldsRejected(w) ==
    /\ pc[w] \in {"truncate", "write", "unlock", "validate", "exec"}
    /\ ~AllowedJob(jobOf(w))

\* C11: a popped job that is_allowed rejects is never run (by anyone, at
\* any time), its worker never reaches the execution loop with it, it has
\* no byte in the file once the file is truncated, and the step that
\* validates it leaves the file and the runs alone and takes the worker
\* straight to the next open() of the task file.
C11_RejectedDropped ==
    /\ [](exists =>
            /\ \A j \in 1..njobs : ~AllowedJob(j) => runs[j] = <<>>
            /\ \A w \in Workers : HoldsRejected(w) =>
                  /\ pc[w] # "exec"
                  /\ pc[w] # "truncate" => jobOf(w) \notin FileJobs
            /\ \A j \in 1..njobs : (~AllowedJob(j) /\ Finished(j)) => j \notin FileJobs)
    /\ [][\A w \in Workers :
            (pc[w] = "validate" /\ pc'[w] # "validate" /\ ~AllowedJob(jobOf(w)))
               => /\ pc'[w] = "open"
                  /\ file' = file
                  /\ runs' = runs
                  /\ attempts'[w] = 0
                  /\ ~allowed'[w]]_vars

\* reached: a worker dropped the rejected first line and popped the second
C11_Witness ==
    /\ exists
    /\ njobs >= 2
    /\ ~AllowedJob(1)
    /\ runs[1] = <<>>
    /\ \E w \in Workers :
          /\ Claimers(1) = {w}
          /\ Claimers(2) = {w}
          /\ pc[w] = "validate"
          /\ jobOf(w) = 2

\* ------------------------------------------------------------ C12
\* the worker has opened the task file for a claim and not yet closed it
\* after writing the remaining lines back
StoreOpenForClaim(w) == pc[w] \in {"lock", "read", "truncate", "write", "unlock"}

\* the worker is past flock(LOCK_EX) in a claim that found a line
Claiming(w) == pc[w] \in {"read", "truncate", "write", "unlock"}

\* the worker validates, runs, sleeps or has exited
OutsideClaim(w) == pc[w] \in {"validate", "exec", "sleep", "done"}

\* C12 as stated: the gate is held from the opening of the store on, all
\* through the claim
C12_GateFromOpen ==
    \A w \in Workers : StoreOpenForClaim(w) => w \in holders

\* C12, amended: the worker opens the store first and takes the gate right
\* after; from there it is the one holder through read, truncate, write
\* and flush; the gate is acquired only by the flock of line 215, when it
\* is free, and released only by a step that leaves the file alone, after
\* the remaining lines were written and flushed (the file then holds
\* exactly them) or after an empty read; a worker that validates, runs,
\* sleeps or has exited does not hold the gate.
C12_GateScope ==
    /\ [](\A w \in Workers :
            /\ Claiming(w) => holders = {w}
            /\ OutsideClaim(w) => w \notin holders
            /\ pc[w] \in {"open", "lock"} => w \notin holders)
    /\ [][\A w \in Workers :
            (w \notin holders /\ w \in holders')
               => (pc[w] = "lock" /\ pc'[w] = "read" /\ holders = {} /\ file' = file)]_vars
    /\ [][\A w \in Workers :
            (w \in holders /\ w \notin holders')
               => /\ pc[w] \in {"unlock", "idle_unlock", "exit_unlock"}
                  /\ file' = file
                  /\ pc[w] = "unlock" =>
                        (file = joinlines(tasks[w]) /\ pc'[w] = "validate")
                  /\ pc[w] # "unlock" => (snap[w] = <<>> /\ file = <<>>)]_vars

\* reached: a worker is about to release the gate, the remaining lines
\* written back, while another runs its task without the gate
C12_Witness ==
    \E w1, w2 \in Workers :
        /\ pc[w1] = "exec"
        /\ pc[w2] = "unlock"
        /\ holders = {w2}
        /\ file = joinlines(tasks[w2])

\* ------------------------------------------------------------ C13
\* every job of the file has been popped
AllClaimed == \A j \in 1..njobs : TimesClaimed(j) = 1

\* every worker is in the execution loop of a task
AllExecuting == \A w \in Workers : pc[w] = "exec"

\* C13: no fairness is assumed of the runs of tasks, so a worker may stay
\* in os.system for ever.  Whatever the others do, a worker that waits in
\* flock gets the lock and completes its claim (it has the task it popped
\* and the lock released, or has found the file empty and sleeps or has
\* exited); and unless every worker ends up in a run that never returns,
\* every line of the file is eventually popped.
C13_LongJobDoesNotBlock ==
    /\ \A w \in Workers :
          (pc[w] = "lock") ~> (pc[w] \in {"validate", "sleep", "done"})
    /\ exists => (<>[]AllClaimed \/ <>[]AllExecuting)

\* reached: the first call of os.system for line 1 has not returned and
\* another worker has popped line 2 and released the lock
C13_Witness ==
    \E w1, w2 \in Workers :
        /\ w1 # w2
        /\ njobs >= 2
        /\ pc[w1] = "exec" /\ jobOf(w1) = 1 /\ runs[1] = <<>>
        /\ pc[w2] = "validate" /\ jobOf(w2) = 2
        /\ holders = {}

\* ------------------------------------------------------------ C14
\* how many lines have been popped, and the lines after them
NumClaimed == Cardinality({ k \in 1..Len(claimed) : claimed[k].id # 0 })
Unclaimed == SubSeq(jobs, NumClaimed + 1, njobs)

\* C14 as stated: whenever no worker holds the lock, the lines of the file
\* are the lines ever put in it, appended ones included, less the popped
\* prefix
C14_StoreIsUnclaimed ==
    holders = {} => readlines(file) = Unclaimed

\* every append so far was made while no worker held the lock and to a
\* file that was empty or ended with a newline
AppendsWereSafe ==
    \A i \in 1..Len(appends) : ~appends[i].locked /\ ~appends[i].joined

\* C14, amended: if every append from outside was made while no worker
\* held the lock and to a file that was empty or ended with a newline,
\* then whenever no worker holds the lock the lines of the file are, whole
\* and in order, the lines ever put in it less the popped prefix, none
\* twice.  Whatever the appends: a popped job has no byte in the file once
\* the file is truncated, whoever holds the lock, and the file holds bytes
\* of known jobs only.
C14_StoreInvariant ==
    /\ (holders = {} /\ AppendsWereSafe) =>
          /\ readlines(file) = Unclaimed
          /\ \A i, k \in 1..Len(readlines(file)) :
                readlines(file)[i][1].id = readlines(file)[k][1].id => i = k
    /\ \A j \in 1..njobs :
          (TimesClaimed(j) >= 1 /\ \A w \in Workers : ~(pc[w] = "truncate" /\ jobOf(w) = j))
             => j \notin FileJobs
    /\ FileJobs \subseteq 1..njobs

\* reached: the lock is free, a line appended from outside to a file with
\* a pending line is in the file and an earlier line has been popped
C14_Witness ==
    /\ holders = {}
    /\ AppendsWereSafe
    /\ Len(appends) >= 1
    /\ NumClaimed >= 1
    /\ Len(readlines(file)) >= 1
    /\ \A w \in Workers : pc[w] \in {"validate", "exec", "open", "lock"}

\* ------------------------------------------------------------ C15
\* the lines of the file are whole lines of jobs
WholeLines ==
    \A i \in 1..Len(readlines(file)) :
        \E j \in 1..njobs : readlines(file)[i] = jobs[j]

\* C15 as stated: a worker killed between flock(LOCK_EX) and
\* flock(LOCK_UN) leaves no partial line in the file and loses no line
\* that was not popped: every job is popped, or is a line of the file, or
\* is in the list a living lock holder is about to write back; and once
\* the lock is free the lines of the file are the lines that were not
\* popped, in order.
C15_AtomicUnderKill ==
    /\ \A j \in 1..njobs : TimesClaimed(j) >= 1 \/ Pending(j)
    /\ holders = {} => (WholeLines /\ readlines(file) = Unclaimed)

\* ------------------------------------------------------------ C16
\* every worker has exited, the file is empty and the lock is free
FleetDone ==
    /\ \A w \in Workers : pc[w] = "done"
    /\ file = <<>>
    /\ holders = {}

\* a worker that has not exited can take a step, or waits in flock for a
\* lock whose holder can take a step
CanProceed(w) ==
    \/ ENABLED (Proceed(w) \/ ExecuteTask(w))
    \/ /\ pc[w] = "lock"
       /\ \E h \in holders : h # w /\ ENABLED Proceed(h)

\* C16: without wait_on_idle and with nobody else writing the file, if
\* every process keeps running and every run of a task returns, then in
\* the end every worker has exited, every line was popped and the file is
\* empty, for good; and in no state is a worker that has not exited stuck.
\* (Weak fairness of flock is enough: the lock is asked for finitely often.)
C16_FleetTermination ==
    /\ (exists /\ ~args.wait_on_idle) => <>[](FleetDone /\ AllClaimed)
    /\ [](\A w \in Workers : pc[w] # "done" => CanProceed(w))

\* reached: without wait_on_idle all workers have exited, two of them
\* having popped lines, one line given up after its runs failed
C16_Witness ==
    /\ exists
    /\ ~args.wait_on_idle
    /\ njobs >= MaxJobs
    /\ FleetDone
    /\ AllClaimed
    /\ \E k1, k2 \in 1..Len(claimed) : claimed[k1].w # claimed[k2].w
    /\ \E j \in 1..njobs : runs[j] # <<>> /\ \A i \in 1..Len(runs[j]) : ~runs[j][i].ok

\* ------------------------------------------------------------ C17
\* what worker v has in memory, and where it is
WorkerState(v) ==
    <<pc[v], tasks[v], task[v], attempts[v], allowed[v], error[v], snap[v]>>

\* C17: when the task file does not exist, the step of a worker at its
\* open() ends that worker: it does not take the lock, the file is neither
\* created nor written, nothing is run, and no other worker's state
\* changes; so with the file missing no worker ever holds the lock, pops
\* or runs anything, and each is at its open() or has exited.
C17_MissingStore ==
    /\ [][\A w \in Workers :
            (~exists /\ pc[w] = "open" /\ pc'[w] # "open")
               => /\ pc'[w] = "done"
                  /\ holders' = holders
                  /\ exists' = exists
                  /\ file' = file
                  /\ runs' = runs
                  /\ claimed' = claimed
                  /\ \A v \in Workers \ {w} : WorkerState(v)' = WorkerState(v)]_vars
    /\ [](~exists =>
            /\ holders = {}
            /\ file = <<>>
            /\ claimed = <<>>
            /\ \A j \in 1..njobs : runs[j] = <<>>
            /\ \A w \in Workers : pc[w] \in {"open", "done"})

\* reached: the file is missing, one worker has exited at its open() and
\* another has not come to its open() yet
C17_Witness ==
    \E w1, w2 \in Workers :
        /\ ~exists
        /\ pc[w1] = "done"
        /\ pc[w2] = "open"

\* ------------------------------------------------------------ C18
\* the state of the worker loop a position of the main loop belongs to:
\* the claim runs from open() to the release of the lock
StateOf(p) ==
    CASE p \in {"open", "lock", "read", "truncate", "write", "unlock",
                "idle_unlock", "exit_unlock"} -> "CLAIM"
      [] p \in {"validate", "exec"} -> "EXECUTE"
      [] p = "sleep" -> "IDLE"
      [] p = "done" -> "TERMINATE"

Transitions ==
    { <<"CLAIM", "EXECUTE">>, <<"CLAIM", "IDLE">>, <<"CLAIM", "TERMINATE">>,
      <<"EXECUTE", "CLAIM">>, <<"IDLE", "CLAIM">> }

\* C18: a worker changes state only along CLAIM -> EXECUTE, IDLE or
\* TERMINATE, EXECUTE -> CLAIM and IDLE -> CLAIM: to EXECUTE with a popped
\* line, to IDLE or TERMINATE after an empty read (or, TERMINATE, a missing
\* file).  The execution loop is left only for the next open(), whether
\* the task succeeded, failed or used up its attempts.  A worker that has
\* exited stays so, keeps its memory and never holds the lock; and the
\* file, the runs and the claims change only in steps of workers that are
\* writing, running or claiming, none of which has exited.
C18_WorkerStateMachine ==
    /\ [][\A w \in Workers :
            StateOf(pc'[w]) # StateOf(pc[w]) =>
               /\ <<StateOf(pc[w]), StateOf(pc'[w])>> \in Transitions
               /\ StateOf(pc'[w]) = "EXECUTE" => (pc[w] = "unlock" /\ snap[w] # <<>>)
               /\ StateOf(pc'[w]) = "IDLE" => (snap[w] = <<>> /\ args.wait_on_idle)
               /\ StateOf(pc'[w]) = "TERMINATE" =>
                     (~exists \/ (snap[w] = <<>> /\ ~args.wait_on_idle))]_vars
    /\ [][\A w \in Workers :
            /\ pc[w] = "exec" => pc'[w] \in {"exec", "open"}
            /\ (pc[w] = "exec" /\ attempts[w] >= args.max_retries) =>
                  runs'[jobOf(w)] = runs[jobOf(w)]]_vars
    /\ [][\A w \in Workers :
            pc[w] = "done" =>
               (WorkerState(w)' = WorkerState(w) /\ w \notin holders /\ w \notin holders')]_vars
    /\ [][/\ file' # file =>
               \E w \in Workers : pc[w] \in {"truncate", "write"} /\ pc'[w] # pc[w]
          /\ runs' # runs =>
               \E w \in Workers : pc[w] = "exec" /\ Len(runs'[jobOf(w)]) = Len(runs[jobOf(w)]) + 1
          /\ claimed' # claimed =>
               \E w \in Workers : pc[w] \in {"lock", "read"} /\ pc'[w] # pc[w]]_vars

\* reached: a worker whose task failed MaxRetries times is back at flock
\* for its next claim, after another worker has exited on the empty file
C18_Witness ==
    \E w1, w2 \in Workers :
        /\ exists
        /\ args.max_retries = MaxRetries
        /\ pc[w1] = "lock"
        /\ attempts[w1] = MaxRetries
        /\ pc[w2] = "done"

\* ------------------------------------------------------------ C19
\* worker w has just had a call of os.system for its task return ok
RunReturned(w, ok) ==
    /\ pc[w] = "exec"
    /\ runs'[jobOf(w)] = Append(runs[jobOf(w)], [w |-> w, ok |-> ok])

\* C19: attempts is 0 when the popped task is validated and when its
\* first run starts; it never exceeds args.max_retries; it changes only
\* by the reset of a claim and by +1 when a run of the worker's task
\* fails, and every failed run adds 1 while a successful one adds nothing
\* and ends the loop.  While a worker is in the loop for job j, attempts
\* counts the runs of j, all failed; so with --retry a job is run until
\* its first success or max_retries failures, a success is its last run,
\* and a job whose k-th run succeeded was run exactly k times.
C19_AttemptCounter ==
    /\ [](\A w \in Workers :
            /\ pc[w] = "validate" => attempts[w] = 0
            /\ attempts[w] <= args.max_retries
            /\ pc[w] = "exec" =>
                  /\ Len(runs[jobOf(w)]) = attempts[w]
                  /\ \A i \in 1..Len(runs[jobOf(w)]) : ~runs[jobOf(w)][i].ok)
    /\ [](args.retry =>
            \A j \in 1..njobs :
               /\ \A i \in 1..(Len(runs[j]) - 1) : ~runs[j][i].ok
               /\ Len(runs[j]) <= args.max_retries)
    /\ [][\A w \in Workers :
            /\ attempts'[w] # attempts[w] =>
                  \/ pc[w] = "unlock" /\ attempts'[w] = 0
                  \/ RunReturned(w, FALSE) /\ attempts'[w] = attempts[w] + 1
            /\ RunReturned(w, FALSE) =>
                  (attempts'[w] = attempts[w] + 1 /\ pc'[w] = "exec")
            /\ RunReturned(w, TRUE) =>
                  (attempts'[w] = attempts[w] /\ pc'[w] = "open")]_vars

\* reached: with --retry the second run of line 1 succeeded, its worker
\* went on to pop line 2 and is about to validate it, the count back at 0
C19_Witness ==
    \E w \in Workers :
        /\ args.retry
        /\ njobs >= 2
        /\ Len(runs[1]) = 2
        /\ ~runs[1][1].ok /\ runs[1][2].ok
        /\ Claimers(1) = {w}
        /\ pc[w] = "validate" /\ jobOf(w) = 2
        /\ attempts[w] = 0

\* ------------------------------------------------------------ C20
\* every append so far was made while every worker ran (or validated) a
\* task, slept or had exited
AppendsWereQuiet == \A i \in 1..Len(appends) : appends[i].quiet

\* no append so far was made to a file that ended in the middle of a line
AppendsWereWhole == \A i \in 1..Len(appends) : ~appends[i].joined

\* the appended lines are behind the pending ones and nothing is lost or
\* popped twice: every job is popped at most once and is popped or still
\* a whole line of the file (or of the list being written back); the
\* k-th claim that pops, pops job k, so an appended job is popped after
\* every job that was pending, by a claim made after the append; and with
\* the lock free the file holds the jobs not popped, in order
AppendsAreSafe ==
    /\ \A j \in 1..njobs : NeverLost(j)
    /\ \A k \in 1..Len(claimed) : claimed[k].id # 0 => claimed[k].id = k
    /\ holders = {} => readlines(file) = Unclaimed

====
